---- MODULE Spec2Model ----
(***************************************************************************)
(* Distance-vector routing agent (A3/dvnode.py, class Node).               *)
(*                                                                         *)
(* Each Node keeps an N x N dist_table, a predecessors list and its list   *)
(* of neighbours.  The row dist_table[nodeid] is bound by __init__ to the  *)
(* very list object simulator.cost[nodeid], so every write to the own row  *)
(* is a write to the simulator's cost row and vice versa; the model keeps  *)
(* both views and writes them together.  The simulator (dvsim: cost        *)
(* matrix, Packet, to_link_layer, event loop) is not part of the sources;  *)
(* it is modelled from the specification: a packet is an immutable         *)
(* (source, destination, vector) snapshot, delivery is unordered.          *)
(***************************************************************************)
EXTENDS Integers, Sequences, FiniteSets, Bags, TLC

VARIABLES cost,          \* simulator.cost, the link-cost matrix
          cost0,         \* the cost matrix the simulation started with
          built,         \* the node ids whose Node object is constructed
          dist_table,    \* dist_table[i] is Node i's self.dist_table
          predecessors,  \* predecessors[i] is Node i's self.predecessors
          neighbours,    \* neighbours[i] is Node i's self.neighbours (a list)
          net,           \* packets handed to to_link_layer, not yet delivered
          outcome,       \* how the last call on a Node ended
          last,          \* the last event processed
          changes,       \* the link-cost-change events so far, in order
          ndeliv         \* deliveries counted by the bounded transport

vars == <<cost, cost0, built, dist_table, predecessors, neighbours, net,
          outcome, last, changes, ndeliv>>

NUM_NODES == 4
inf == 99
None == -1

Nodes == 0 .. (NUM_NODES - 1)

\* number of link-cost-change events injected in one run
MaxChanges == 2
\* number of packets the bounded transport delivers in one run
MaxDeliveries == 4

\* float addition with math.inf: inf + x = inf
Plus(a, b) == IF a = inf \/ b = inf THEN inf ELSE a + b

InfRow == [j \in Nodes |-> inf]

----------------------------------------------------------------------------
(* Cost matrices the simulation may start with: symmetric, zero diagonal.  *)

\* symmetric matrix with the three links 0-1, 1-2, 0-2 and the links of node 3
Matrix(c01, c12, c02, c03, c13, c23) ==
  [i \in Nodes |-> [j \in Nodes |->
     IF i = j THEN 0
     ELSE IF {i, j} = {0, 1} THEN c01
     ELSE IF {i, j} = {1, 2} THEN c12
     ELSE IF {i, j} = {0, 2} THEN c02
     ELSE IF {i, j} = {0, 3} THEN c03
     ELSE IF {i, j} = {1, 3} THEN c13
     ELSE c23]]

\* the example scenario: 0-1 = 1, 1-2 = 1, 0-2 = 4, node 3 not connected
ExampleCost == Matrix(1, 1, 4, inf, inf, inf)

\* a chain 0 - 1 - 2: node 2 is no neighbour of node 0
LineCost == Matrix(1, 1, inf, inf, inf, inf)

\* a four-node network in which node 0 reaches node 1 cheaper through node 2
DetourCost == Matrix(4, 1, 1, 4, 1, inf)

\* networks small enough to run until no packet is in flight
Topologies ==
  {ExampleCost, LineCost,
   Matrix(1, 1, 2, inf, inf, inf), Matrix(0, 0, 0, inf, inf, inf),
   Matrix(0, 1, inf, inf, inf, inf), Matrix(1, inf, inf, inf, inf, inf),
   Matrix(1, 1, inf, inf, inf, 1), Matrix(inf, inf, inf, inf, inf, inf)}

\* networks of the runs with a bounded number of deliveries
BoundedTopologies == {ExampleCost, LineCost, DetourCost}

----------------------------------------------------------------------------
(* Node.find_neighbours: ids in ascending order with a finite cost entry.  *)

RECURSIVE NeighbourListWithSelf(_, _, _)
NeighbourListWithSelf(self, cost_row, i) ==
  IF i = NUM_NODES THEN <<>>
  ELSE IF cost_row[i] # inf
       THEN <<i>> \o NeighbourListWithSelf(self, cost_row, i + 1)
       ELSE NeighbourListWithSelf(self, cost_row, i + 1)

RECURSIVE NeighbourList(_, _, _)
NeighbourList(self, cost_row, i) ==
  IF i = NUM_NODES THEN <<>>
  ELSE IF i # self /\ cost_row[i] # inf
       THEN <<i>> \o NeighbourList(self, cost_row, i + 1)
       ELSE NeighbourList(self, cost_row, i + 1)

find_neighbours(self) == NeighbourList(self, cost[self], 0)

(* Node.get_link_cost, Node.get_dist_vector, Node.get_predecessor *)
get_link_cost(self, other) == cost[self][other]

get_dist_vector(self) == dist_table[self][self]

get_predecessor(self, other) == predecessors[self][other]

(* Packet(src, dest, dist_vector) *)
Packet(src, dest, vector) == [src |-> src, dest |-> dest, dist_vector |-> vector]

(* Node.send_packet_to_neighbours: the packets handed to to_link_layer.    *)
(* cost_row is simulator.cost[self] as it is when the packets are built.   *)
SendGuard(self, i, cost_row) == i # self /\ cost_row[i] # inf

SendWithSwappedAddresses(self, nbrs, cost_row, vector) ==
  LET idx == {k \in 1 .. Len(nbrs) : SendGuard(self, nbrs[k], cost_row)}
  IN  SetToBag({Packet(nbrs[k], self, vector) : k \in idx})

send_packet_to_neighbours(self, nbrs, cost_row, vector) ==
  LET idx == {k \in 1 .. Len(nbrs) : SendGuard(self, nbrs[k], cost_row)}
  IN  SetToBag({Packet(self, nbrs[k], vector) : k \in idx})

(* to_link_layer keeps the packet until it is delivered.                   *)
to_link_layer(bag, pkts) == bag (+) pkts

----------------------------------------------------------------------------
InitWith(topologies) ==
  /\ cost \in topologies
  /\ cost0 = cost
  /\ built = {}
  /\ dist_table = [i \in Nodes |-> [r \in Nodes |-> InfRow]]
  /\ predecessors = [i \in Nodes |-> [j \in Nodes |-> None]]
  /\ neighbours = [i \in Nodes |-> <<>>]
  /\ net = EmptyBag
  /\ outcome = "none"
  /\ last = <<"other">>
  /\ changes = <<>>
  /\ ndeliv = 0

Init == InitWith(Topologies)

(* Node.__init__ *)
InitTableNoOwnRow(self) == [r \in Nodes |-> InfRow]

InitTable(self) ==
  [r \in Nodes |-> IF r = self THEN cost[self] ELSE InfRow]

InitPredecessors == [j \in Nodes |-> None]

Construct(self) ==
  /\ self \notin built
  /\ \A j \in Nodes : j < self => j \in built
  /\ built' = built \cup {self}
  /\ dist_table' = [dist_table EXCEPT ![self] = InitTable(self)]
  /\ predecessors' = [predecessors EXCEPT ![self] = InitPredecessors]
  /\ neighbours' = [neighbours EXCEPT ![self] = find_neighbours(self)]
  /\ net' = to_link_layer(net,
              send_packet_to_neighbours(self, find_neighbours(self),
                                        cost[self], cost[self]))
  /\ outcome' = "ok"
  /\ last' = <<"other">>
  /\ UNCHANGED <<cost, cost0, changes, ndeliv>>

----------------------------------------------------------------------------
(* Node.update *)

RejectsBySource(self, pkt) == pkt.src = self

\* line 95: the packet is not addressed to this node
Rejects(self, pkt) == pkt.dest # self

SenderNeverImproved(sender_vector, stored_row) == FALSE

\* lines 104-106: some column of the sender's vector is below the stored row
SenderImproved(sender_vector, stored_row) ==
  \E node \in Nodes : sender_vector[node] < stored_row[node]

StoreRowMerged(stored_row, sender_vector) ==
  [node \in Nodes |-> IF sender_vector[node] < stored_row[node]
                      THEN sender_vector[node] ELSE stored_row[node]]

\* line 109: self.dist_table[sender] = sender_vector
StoreRow(stored_row, sender_vector) == sender_vector

CandidateWithoutFirstHop(sender_vector, self_vector, sender, node) ==
  sender_vector[node]

\* line 113: dp = sender_vector[node] + self_vector[sender]
Candidate(sender_vector, self_vector, sender, node) ==
  Plus(sender_vector[node], self_vector[sender])

BetterReversed(dp, current) == dp > current

BetterOrEqual(dp, current) == dp <= current

\* line 114: if dp < self_vector[node]
Better(dp, current) == dp < current

RECURSIVE RelaxLoopAllNodes(_, _, _, _, _)
RelaxLoopAllNodes(nbrs, k, sender_vector, sender, st) ==
  IF k > NUM_NODES THEN st
  ELSE LET node == k - 1
           dp   == Plus(sender_vector[node], st.row[sender])
       IN  IF dp < st.row[node]
           THEN RelaxLoopAllNodes(nbrs, k + 1, sender_vector, sender,
                          [row |-> [st.row EXCEPT ![node] = dp], call |-> TRUE])
           ELSE RelaxLoopAllNodes(nbrs, k + 1, sender_vector, sender, st)

\* lines 112-116: the loop over self.neighbours, in list order, writing
\* self_vector in place; st = [row |-> self_vector, call |-> update_call]
RECURSIVE RelaxLoop(_, _, _, _, _)
RelaxLoop(nbrs, k, sender_vector, sender, st) ==
  IF k > Len(nbrs) THEN st
  ELSE LET node == nbrs[k]
           dp   == Candidate(sender_vector, st.row, sender, node)
       IN  IF Better(dp, st.row[node])
           THEN RelaxLoop(nbrs, k + 1, sender_vector, sender,
                          [row |-> [st.row EXCEPT ![node] = dp], call |-> TRUE])
           ELSE RelaxLoop(nbrs, k + 1, sender_vector, sender, st)

\* the predecessors after a relaxation: the code assigns none
RelaxPredecessors(preds, old_row, new_row, sender) == preds

\* update(pkt) on Node self; bag is what the transport still holds
update(self, pkt, bag) ==
  IF Rejects(self, pkt)
  THEN /\ outcome' = "RuntimeError"
       /\ net' = bag
       /\ UNCHANGED <<cost, dist_table, predecessors, neighbours>>
  ELSE LET sender        == pkt.src
           sender_vector == pkt.dist_vector
           self_vector   == dist_table[self][self]
           call0         == SenderImproved(sender_vector, dist_table[self][sender])
           st            == RelaxLoop(neighbours[self], 1, sender_vector, sender,
                                      [row |-> self_vector, call |-> call0])
       IN  /\ dist_table' = [dist_table EXCEPT ![self] =
                 [r \in Nodes |-> IF r = sender
                                    THEN StoreRow(dist_table[self][sender],
                                                  sender_vector)
                                  ELSE IF r = self THEN st.row
                                  ELSE dist_table[self][r]]]
           \* self_vector is the list simulator.cost[self] (line 37)
           /\ cost' = [cost EXCEPT ![self] = st.row]
           /\ predecessors' = [predecessors EXCEPT ![self] =
                 RelaxPredecessors(predecessors[self], self_vector, st.row, sender)]
           /\ net' = IF st.call
                     THEN to_link_layer(bag,
                            send_packet_to_neighbours(self, neighbours[self],
                                                      st.row, st.row))
                     ELSE bag
           /\ outcome' = "ok"
           /\ UNCHANGED neighbours

(* the transport delivers one packet, in any order, to its destination *)
Deliver(p) ==
  /\ built = Nodes
  /\ BagIn(p, net)
  /\ update(p.dest, p, net (-) SetToBag({p}))
  /\ last' = <<"other">>
  /\ UNCHANGED <<cost0, built, changes, ndeliv>>

Next ==
  \/ \E self \in Nodes : Construct(self)
  \/ \E p \in BagToSet(net) : Deliver(p)

Spec == Init /\ [][Next]_vars

----------------------------------------------------------------------------
(* Node.link_cost_change_handler and the events of a driven run *)

\* the simulator changes the cost of the link self - which_link in place,
\* in both directions, before it notifies the node
SimSetCost(matrix, self, which_link, new_cost) ==
  [i \in Nodes |-> [j \in Nodes |->
     IF (i = self /\ j = which_link) \/ (i = which_link /\ j = self)
     THEN new_cost ELSE matrix[i][j]]]

\* lines 122-131: the body of the handler is "pass"; it returns the node's
\* table unchanged and hands nothing to the transport
HandlerTable(table, self, which_link, new_cost) == table

HandlerAlwaysBroadcasts(self, which_link, new_cost) ==
  send_packet_to_neighbours(self, neighbours[self], cost[self], cost[self])

HandlerPackets(self, which_link, new_cost) == EmptyBag

ChangeVals == {1, 10}

link_cost_change_handler(self, which_link, new_cost) ==
  /\ built = Nodes
  /\ self # which_link
  /\ Len(changes) < MaxChanges
  /\ LET c == SimSetCost(cost, self, which_link, new_cost)
         \* the own rows are the rows of simulator.cost (line 37)
         t == [i \in Nodes |-> [dist_table[i] EXCEPT ![i] = c[i]]]
     IN  /\ cost' = c
         /\ dist_table' = [t EXCEPT ![self] =
                             HandlerTable(t[self], self, which_link, new_cost)]
  /\ net' = to_link_layer(net, HandlerPackets(self, which_link, new_cost))
  /\ outcome' = "ok"
  /\ last' = <<"lcc", self, which_link, new_cost>>
  /\ changes' = Append(changes, <<self, which_link, new_cost>>)
  /\ UNCHANGED <<cost0, built, predecessors, neighbours, ndeliv>>

\* a driver hands a Node a packet in flight that is addressed to another node
DriverUpdate(self, p) ==
  /\ built = Nodes
  /\ BagIn(p, net)
  /\ p.dest # self
  /\ update(self, p, net)
  /\ last' = <<"other">>
  /\ UNCHANGED <<cost0, built, changes, ndeliv>>

\* the transport of a run that stops after MaxDeliveries deliveries
DeliverBounded(p) ==
  /\ ndeliv < MaxDeliveries
  /\ built = Nodes
  /\ BagIn(p, net)
  /\ update(p.dest, p, net (-) SetToBag({p}))
  /\ last' = <<"other">>
  /\ ndeliv' = ndeliv + 1
  /\ UNCHANGED <<cost0, built, changes>>

\* the link-cost changes a driver injects: <<node notified, other end>>
ChangeLinks == {<<0, 1>>, <<1, 0>>, <<0, 2>>, <<2, 0>>}

NextDriven ==
  \/ \E self \in Nodes : Construct(self)
  \/ \E p \in BagToSet(net) : DeliverBounded(p)
  \/ \E self \in Nodes : \E p \in BagToSet(net) : DriverUpdate(self, p)

SpecDriven == InitWith(BoundedTopologies) /\ [][NextDriven]_vars

\* the example network run to the end, then link-cost changes; the
\* notifications of one change follow each other without a delivery between
NextExample ==
  \/ \E self \in Nodes : Construct(self)
  \/ \E p \in BagToSet(net) : Deliver(p)
  \/ /\ net = EmptyBag \/ last[1] = "lcc"
     /\ \E l \in ChangeLinks, c \in ChangeVals :
          link_cost_change_handler(l[1], l[2], c)

SpecExample == InitWith({ExampleCost}) /\ [][NextExample]_vars

\* networks whose fair runs are small enough for the search for a cycle:
\* chains, a pair, triangles, without and with links of cost 0
FairTopologies == Topologies \ {ExampleCost}

\* a static run in which the simulator's event loop goes on as long as an
\* event (a construction, a packet to deliver) is pending
SpecFair == InitWith(FairTopologies) /\ [][Next]_vars /\ WF_vars(Next)

----------------------------------------------------------------------------
(* Reference values and shorthands of the properties *)

Min(a, b) == IF a < b THEN a ELSE b

\* the least of the values f[x], x in S; inf for the empty set
RECURSIVE MinOver(_, _)
MinOver(f, S) ==
  IF S = {} THEN inf
  ELSE LET x == CHOOSE y \in S : TRUE
       IN  Min(f[x], MinOver(f, S \ {x}))

\* the least cost of a path from i to j with at most hops links
RECURSIVE PathCost(_, _, _, _)
PathCost(matrix, i, j, hops) ==
  IF hops = 0 THEN (IF i = j THEN 0 ELSE inf)
  ELSE Min(PathCost(matrix, i, j, hops - 1),
           MinOver([k \in Nodes |->
                      Plus(matrix[i][k], PathCost(matrix, k, j, hops - 1))],
                   Nodes \ {i}))

\* all-pairs shortest paths of the cost matrices a run may start with
ShortestTable ==
  [matrix \in Topologies \cup BoundedTopologies |->
     [i \in Nodes |-> [j \in Nodes |-> PathCost(matrix, i, j, NUM_NODES - 1)]]]

ShortestPaths(matrix) == ShortestTable[matrix]

\* every Node is constructed and no packet is in flight
Quiescent == built = Nodes /\ net = EmptyBag

\* the first three entries of a vector
Front(vector) == <<vector[0], vector[1], vector[2]>>

\* what the transport holds after p is taken out
Rest(p) == net (-) SetToBag({p})

\* the Node's own row, after the step, addressed to each of its neighbours
BroadcastAfter(self) ==
  SetToBag({Packet(self, neighbours[self][k], dist_table'[self][self]) :
              k \in 1 .. Len(neighbours[self])})

\* the step is the delivery of p: the transport holds one copy less of it
Delivered(p) == CopiesIn(p, net') < CopiesIn(p, net) /\ Deliver(p)

OwnRowChanged(self) == dist_table'[self][self] # dist_table[self][self]

----------------------------------------------------------------------------
\* C1: in a static network, once every Node is constructed and no packet is
\* in flight, every Node's own row equals the shortest-path costs of the
\* initial cost matrix, for every destination.
C1_Convergence ==
  Quiescent =>
    \A i \in Nodes : \A d \in Nodes :
      get_dist_vector(i)[d] = ShortestPaths(cost0)[i][d]

\* C2: no step of a static run raises an entry of a constructed Node's own row.
C2_MonotonicNonIncrease ==
  [][\A i \in built : \A d \in Nodes :
       dist_table'[i][i][d] <= dist_table[i][i][d]]_vars

\* an update has lowered an entry of some own row below the initial link cost
C2_Witness ==
  \E i \in Nodes : \E d \in Nodes :
    built = Nodes /\ dist_table[i][i][d] < cost0[i][d]

\* C3: update() on Node a with a packet addressed to another node ends in
\* RuntimeError and changes neither a's table, predecessors, neighbours, nor
\* the link costs, and hands nothing to the transport.
C3_ProtocolViolation ==
  [][\A a \in Nodes : \A p \in BagToSet(net) :
       DriverUpdate(a, p) =>
         /\ outcome' = "RuntimeError"
         /\ UNCHANGED <<dist_table, predecessors, neighbours, cost, net>>]_vars

\* a misaddressed update() has just been rejected, after some deliveries
C3_Witness == outcome = "RuntimeError" /\ ndeliv > 0

\* C4: right after Node v is constructed its own row holds 0 for v and the
\* direct link cost for every j, every other row is all-infinite and every
\* predecessor is None.
C4_OwnCostInit ==
  [][\A v \in Nodes :
       Construct(v) =>
         /\ dist_table'[v][v][v] = 0
         /\ \A j \in Nodes : dist_table'[v][v][j] = cost0[v][j]
         /\ \A j \in Nodes : dist_table'[v][v][j] = cost'[v][j]
         /\ \A r \in Nodes \ {v} : dist_table'[v][r] = InfRow
         /\ \A j \in Nodes : predecessors'[v][j] = None]_vars

\* every Node of the example network is constructed, none has received yet
C4_Witness ==
  /\ cost0 = ExampleCost
  /\ built = Nodes
  /\ \A v \in Nodes : dist_table[v] = [r \in Nodes |-> IF r = v THEN cost0[v] ELSE InfRow]
  /\ net # EmptyBag

\* C5 as stated: a correctly addressed update() broadcasts the own row to
\* all neighbours if and only if it changed an entry of the own row.
C5_BroadcastIffOwnRowChanged ==
  [][\A p \in BagToSet(net) :
       Delivered(p) =>
         IF OwnRowChanged(p.dest)
         THEN net' = Rest(p) (+) BroadcastAfter(p.dest)
         ELSE net' = Rest(p)]_vars

\* C5 amended: a correctly addressed update() broadcasts the own row to all
\* neighbours if and only if it changed an entry of the own row or some entry
\* of the packet's vector is below the row stored for the sender before the
\* call; otherwise it sends nothing.
C5_BroadcastIffImproved ==
  [][\A p \in BagToSet(net) :
       Delivered(p) =>
         IF \/ OwnRowChanged(p.dest)
            \/ \E d \in Nodes : p.dist_vector[d] < dist_table[p.dest][p.src][d]
         THEN net' = Rest(p) (+) BroadcastAfter(p.dest)
         ELSE net' = Rest(p)]_vars

\* a Node whose own row never changed holds a row it received: it has
\* broadcast without a change of its own row
C5_Witness ==
  \E a \in Nodes : \E s \in Nodes \ {a} :
    /\ built = Nodes
    /\ dist_table[a][a] = cost0[a]
    /\ dist_table[a][s] # InfRow
    /\ \E p \in BagToSet(net) : p.src = a /\ CopiesIn(p, net) >= 2

\* C6: an update() with a vector identical to the row stored for its sender
\* sends nothing.
C6_NoOpAdvertisement ==
  [][\A p \in BagToSet(net) :
       (DeliverBounded(p) /\ p.dist_vector = dist_table[p.dest][p.src]) =>
         net' = Rest(p)]_vars

\* C7: link_cost_change_handler called again with the same arguments, with
\* no event in between, changes nothing and sends nothing.
C7_HandlerIdempotent ==
  [][\A l \in ChangeLinks : \A c \in ChangeVals :
       (last = <<"lcc", l[1], l[2], c>> /\ link_cost_change_handler(l[1], l[2], c)) =>
         UNCHANGED <<dist_table, predecessors, neighbours, cost, net>>]_vars

\* the handler has run twice in a row with the same arguments
C7_Witness ==
  /\ Len(changes) >= 2
  /\ changes[Len(changes)] = changes[Len(changes) - 1]
  /\ last[1] = "lcc"

\* C8: in the example network, once no packet is in flight, node 0's vector
\* is [0, 1, 2] and its predecessor for node 2 is node 1.
C8_ExampleStatic ==
  (cost0 = ExampleCost /\ Quiescent) =>
    /\ Front(get_dist_vector(0)) = <<0, 1, 2>>
    /\ get_predecessor(0, 2) = 1

\* C9: in the converged example network, after link 0-1 is raised to 10 and
\* both ends are notified, node 0's vector is [0, 2, 1].
C9_ExampleLinkChange ==
  (/\ cost0 = ExampleCost
   /\ Quiescent
   /\ changes = << <<0, 1, 10>>, <<1, 0, 10>> >>) =>
    Front(get_dist_vector(0)) = <<0, 2, 1>>

\* C10: a destination whose own-row cost is below its value at construction
\* has a predecessor that is set and is a neighbour of the Node.
C10_PredecessorConsistency ==
  \A i \in built : \A j \in Nodes :
    get_dist_vector(i)[j] < cost0[i][j] =>
      /\ get_predecessor(i, j) # None
      /\ \E k \in 1 .. Len(neighbours[i]) : neighbours[i][k] = get_predecessor(i, j)

----------------------------------------------------------------------------
(* Shorthands of the properties of the second group *)

NeighbourSet(self) == {neighbours[self][k] : k \in 1 .. Len(neighbours[self])}

\* the neighbours whose row the Node has stored
KnownNeighbours(self) == {k \in NeighbourSet(self) : dist_table[self][k] # InfRow}

\* the step is the bounded delivery of p
DeliveredBounded(p) == CopiesIn(p, net') < CopiesIn(p, net) /\ DeliverBounded(p)

\* the step is the call link_cost_change_handler(w, c) on Node self: the
\* call is appended to the link-cost-change events
Notified(self, w, c) ==
  /\ Len(changes') > Len(changes)
  /\ changes'[Len(changes')] = <<self, w, c>>
  /\ link_cost_change_handler(self, w, c)

\* the step is an event processed by Node self
ProcessesEvent(self) ==
  \/ Construct(self)
  \/ \E p \in BagToSet(net) : p.dest = self /\ Delivered(p)
  \/ \E l \in ChangeLinks : \E c \in ChangeVals :
       l[1] = self /\ Notified(l[1], l[2], c)

----------------------------------------------------------------------------
\* C11: when link_cost_change_handler(w, c) on Node self returns, the own-row
\* entry for w is the minimum of c and of link cost to k plus the stored
\* entry of k for w, over the neighbours k whose row is stored.
C11_HandlerRecomputes ==
  [][\A l \in ChangeLinks : \A c \in ChangeVals :
       Notified(l[1], l[2], c) =>
         dist_table'[l[1]][l[1]][l[2]] =
           Min(c, MinOver([k \in Nodes |->
                             Plus(cost'[l[1]][k], dist_table'[l[1]][k][l[2]])],
                          KnownNeighbours(l[1])))]_vars

\* C12: row r # A of Node A's table is all-infinite when A is constructed;
\* when A processes an advertisement from r, row r becomes exactly the vector
\* it carried and no other row r' # A' of any Node A' changes; a construction
\* changes no such row of a constructed Node.
C12_StoredRow ==
  [][/\ \A p \in BagToSet(net) :
          Delivered(p) =>
            /\ dist_table'[p.dest][p.src] = p.dist_vector
            /\ \A a \in built : \A r \in Nodes \ {a} :
                 <<a, r>> # <<p.dest, p.src>> => dist_table'[a][r] = dist_table[a][r]
     /\ built' # built =>
          /\ \A a \in built : \A r \in Nodes \ {a} : dist_table'[a][r] = dist_table[a][r]
          /\ \A a \in built' \ built : \A r \in Nodes \ {a} : dist_table'[a][r] = InfRow]_vars

\* a Node stores an older, larger vector of a neighbour that has sent a lower one since
C12_Witness ==
  \E a \in Nodes : \E r \in Nodes \ {a} :
    /\ built = Nodes
    /\ dist_table[a][r] # InfRow
    /\ dist_table[a][r] # dist_table[r][r]
    /\ \A p \in BagToSet(net) : ~(p.src = r /\ p.dest = a)

\* C13: in a static run, update() from sender s compares the own-row entry
\* for d with (direct link cost to s) + senderVector[d].
C13_FirstHopCost ==
  [][\A p \in BagToSet(net) :
       DeliveredBounded(p) =>
         \A d \in NeighbourSet(p.dest) :
           dist_table'[p.dest][p.dest][d] =
             Min(dist_table[p.dest][p.dest][d],
                 Plus(cost0[p.dest][p.src], p.dist_vector[d]))]_vars

\* C14: constructing Node v makes its neighbour set the nodes j # v at
\* finite link cost and hands the transport exactly one packet for each of
\* them, carrying the initial own row, and no other packet.
C14_Bootstrap ==
  [][\A v \in Nodes :
       Construct(v) =>
         LET nbrs == {j \in Nodes \ {v} : cost0[v][j] # inf}
         IN  /\ {neighbours'[v][k] : k \in 1 .. Len(neighbours'[v])} = nbrs
             /\ Len(neighbours'[v]) = Cardinality(nbrs)
             /\ net' = net (+) SetToBag({Packet(v, j, cost0[v]) : j \in nbrs})
             /\ \A j \in nbrs : CopiesIn(Packet(v, j, cost0[v]), net') = 1]_vars

\* the chain network after nodes 0 and 1 are constructed: one packet per neighbour
C14_Witness ==
  /\ cost0 = LineCost
  /\ built = {0, 1}
  /\ net = SetToBag({Packet(0, 1, cost0[0]), Packet(1, 0, cost0[1]),
                     Packet(1, 2, cost0[1])})

\* C15: the own-row entry for a destination that is neither the Node nor
\* one of its neighbours keeps its value at construction, inf.
C15_RelaxationScope ==
  \A i \in built : \A d \in Nodes \ ({i} \cup NeighbourSet(i)) :
    get_dist_vector(i)[d] = inf /\ cost0[i][d] = inf

\* node 0 of the chain holds node 1's finite cost to node 2 and still has inf
C15_Witness ==
  /\ cost0 = LineCost
  /\ built = Nodes
  /\ dist_table[0][1][2] = 1
  /\ get_dist_vector(0)[2] = inf

\* C16: in a static run get_link_cost returns for every pair the initial
\* link cost, whatever advertisements were processed.
C16_ReadOnlyOracle ==
  \A i \in Nodes : \A j \in Nodes : get_link_cost(i, j) = cost0[i][j]

\* C17: the table and the predecessors of Node a change only in a step in
\* which a processes an event, and a packet in flight is not altered.
C17_AgentIsolation ==
  [][/\ \A a \in built :
          (dist_table'[a] # dist_table[a] \/ predecessors'[a] # predecessors[a])
            => ProcessesEvent(a)
     /\ \A p \in BagToSet(net) : CopiesIn(p, net') >= CopiesIn(p, net) - 1]_vars

\* C18: every packet a step hands to the transport has a constructed source,
\* a destination among the source's neighbours and other than the source,
\* and the source's own row after the step as its vector; no update() of a
\* static run ends in RuntimeError.
C18_PacketWellFormed ==
  [][/\ \A p \in BagToSet(net') :
          CopiesIn(p, net') > CopiesIn(p, net) =>
            /\ p.src \in built'
            /\ p.dest # p.src
            /\ p.dest \in {neighbours'[p.src][k] : k \in 1 .. Len(neighbours'[p.src])}
            /\ p.dist_vector = dist_table'[p.src][p.src]
            /\ \/ Construct(p.src)
               \/ \E q \in BagToSet(net) : q.dest = p.src /\ Delivered(q)
     /\ outcome' # "RuntimeError"]_vars

\* a packet in flight carries an own row that an update() has lowered
C18_Witness ==
  \E p \in BagToSet(net) : \E d \in Nodes : p.dist_vector[d] < cost0[p.src][d]

\* C19: in a static run no own-row entry is below the shortest-path cost of
\* the initial cost matrix, and the entry of a Node for itself is 0.
C19_NoUnderestimate ==
  LET shortest == ShortestPaths(cost0)
  IN  \A v \in built :
        /\ get_dist_vector(v)[v] = 0
        /\ \A d \in Nodes : get_dist_vector(v)[d] >= shortest[v][d]

\* an entry has come down to the shortest-path cost, below the link cost
C19_Witness ==
  \E v \in Nodes : \E d \in Nodes :
    /\ v \in built
    /\ get_dist_vector(v)[d] = ShortestPaths(cost0)[v][d]
    /\ ShortestPaths(cost0)[v][d] < cost0[v][d]

RECURSIVE RowSum(_, _)
RowSum(row, i) == IF i = NUM_NODES THEN 0 ELSE row[i] + RowSum(row, i + 1)

\* the sum of the entries of the own rows of the nodes i, ..., NUM_NODES - 1
RECURSIVE OwnRowSum(_)
OwnRowSum(i) ==
  IF i = NUM_NODES THEN 0 ELSE RowSum(dist_table[i][i], 0) + OwnRowSum(i + 1)

Unbuilt == Cardinality(Nodes \ built)

OwnRows == OwnRowSum(0)

\* packets in flight whose vector is no longer the own row of their source
StalePackets ==
  LET stale == {p \in BagToSet(net) : p.dist_vector # dist_table[p.src][p.src]}
  IN  IF stale = {} THEN 0 ELSE BagCardinality([p \in stale |-> net[p]])

\* stored rows of neighbours that are not the own row of that neighbour
StaleRows ==
  Cardinality({pair \in Nodes \X Nodes :
                 /\ pair[1] \in built
                 /\ pair[2] \in NeighbourSet(pair[1])
                 /\ dist_table[pair[1]][pair[2]] # dist_table[pair[2]][pair[2]]})

InFlight == BagCardinality(net)

\* C20, the runs with an improvement: every step of a static run, of the
\* example network too, lowers the tuple <<Nodes to construct, sum of the
\* own rows, stale packets, stale stored rows, packets in flight>> in the
\* lexicographic order of tuples of naturals, so no run has infinitely many
\* steps.
C20_VariantDecreases ==
  [][\/ Unbuilt' < Unbuilt
     \/ /\ Unbuilt' = Unbuilt
        /\ \/ OwnRows' < OwnRows
           \/ /\ OwnRows' = OwnRows
              /\ \/ StalePackets' < StalePackets
                 \/ /\ StalePackets' = StalePackets
                    /\ \/ StaleRows' < StaleRows
                       \/ /\ StaleRows' = StaleRows
                          /\ InFlight' < InFlight]_vars

====
